---- MODULE Spec2Model ----
(***************************************************************************)
(* Model of tensorflow_datasets/image/plant_leaves.py: the PlantLeaves     *)
(* builder.  Two operations are modelled:                                  *)
(*   _split_generators : reads the URL manifest, then calls                *)
(*                       dl_manager.download in a retry loop;              *)
(*   _generate_examples: walks image_files and yields one keyed record per *)
(*                       entry whose file name resolves to a label.        *)
(* Strings are TLA+ strings; Len, \o and SubSeq act on them as on Python   *)
(* str.                                                                    *)
(***************************************************************************)
EXTENDS Integers, Sequences, FiniteSets, TLC

VARIABLES
  pc,               \* position of _split_generators
  url_lines,        \* f.readlines() of the URL manifest
  name_to_url_map,  \* local of _split_generators
  retry_count,      \* local of _split_generators
  image_files,      \* local of _split_generators
  result,           \* what _split_generators returned (a list of split generators)
  calls,            \* number of dl_manager.download invocations so far (history)
  fails,            \* number of those invocations that raised (history)
  downloaded,       \* the mappings dl_manager.download has returned, in order (history)
  gpc,              \* position of _generate_examples
  gen_files,        \* the image_files argument of _generate_examples
  gen_files0,       \* the argument as it was when the call started (history)
  visits,           \* number of loop iterations run so far (history)
  todo,             \* keys the items() iteration has not yet visited
  emitted           \* sequence of <<key, record>> pairs yielded so far

vars == <<pc, url_lines, name_to_url_map, retry_count, image_files, result,
          calls, fails, downloaded, gpc, gen_files, gen_files0, visits, todo,
          emitted>>

splitVars == <<pc, url_lines, name_to_url_map, retry_count, image_files,
               result, calls, fails, downloaded>>

genVars == <<gpc, gen_files, gen_files0, visits, todo, emitted>>

(***************************************************************************)
(* Bounds of the model.                                                    *)
(***************************************************************************)
\* longest URL manifest, in lines
MaxLines == 2
\* the history counters calls and fails stop counting here
MaxCalls == 12
\* largest image_files handed to _generate_examples
MaxFiles == 2

(***************************************************************************)
(* Module-level constants of plant_leaves.py.                              *)
(***************************************************************************)
LABEL_MAPPING == <<
    <<"0014", "Alstonia Scholaris (P2) diseased">>,
    <<"0003", "Alstonia Scholaris (P2) healthy">>,
    <<"0013", "Arjun (P1) diseased">>,
    <<"0002", "Arjun (P1) healthy">>,
    <<"0016", "Bael (P4) diseased">>,
    <<"0008", "Basil (P8) healthy">>,
    <<"0022", "Chinar (P11) diseased">>,
    <<"0011", "Chinar (P11) healthy">>,
    <<"0015", "Gauva (P3) diseased">>,
    <<"0004", "Gauva (P3) healthy">>,
    <<"0017", "Jamun (P5) diseased">>,
    <<"0005", "Jamun (P5) healthy">>,
    <<"0018", "Jatropha (P6) diseased">>,
    <<"0006", "Jatropha (P6) healthy">>,
    <<"0021", "Lemon (P10) diseased">>,
    <<"0010", "Lemon (P10) healthy">>,
    <<"0012", "Mango (P0) diseased">>,
    <<"0001", "Mango (P0) healthy">>,
    <<"0020", "Pomegranate (P9) diseased">>,
    <<"0009", "Pomegranate (P9) healthy">>,
    <<"0019", "Pongamia Pinnata (P7) diseased">>,
    <<"0007", "Pongamia Pinnata (P7) healthy">>
  >>

MAX_DOWNLOAD_RETRY == 10

(***************************************************************************)
(* Python str primitives used by the module.                               *)
(***************************************************************************)
Char(s, i) == SubSeq(s, i, i)

Whitespace == {" ", "\t", "\n", "\r"}

RECURSIVE LStrip(_)
LStrip(s) ==
  IF Len(s) > 0 /\ Char(s, 1) \in Whitespace
    THEN LStrip(SubSeq(s, 2, Len(s)))
    ELSE s

RECURSIVE RStrip(_)
RStrip(s) ==
  IF Len(s) > 0 /\ Char(s, Len(s)) \in Whitespace
    THEN RStrip(SubSeq(s, 1, Len(s) - 1))
    ELSE s

\* l.strip()
Strip(s) == RStrip(LStrip(s))

\* os.path.basename(p): what follows the last "/" of p
Basename(p) ==
  LET slashes == {i \in 1..Len(p) : Char(p, i) = "/"}
      last == IF slashes = {} THEN 0
              ELSE CHOOSE i \in slashes : \A j \in slashes : j <= i
  IN SubSeq(p, last + 1, Len(p))

\* { os.path.basename(l.strip()): l.strip() for l in lines }: the lines are
\* taken in order, and a line with a basename already present replaces it
RECURSIVE NameToUrlMap(_)
NameToUrlMap(lines) ==
  IF lines = <<>> THEN <<>>
  ELSE LET m == NameToUrlMap(SubSeq(lines, 1, Len(lines) - 1))
           url == Strip(lines[Len(lines)])
           name == Basename(url)
       IN [k \in DOMAIN m \cup {name} |-> IF k = name THEN url ELSE m[k]]

(***************************************************************************)
(* The environment: the bundled URL manifest and the download manager.     *)
(***************************************************************************)
UrlPrefix == "http://m/f/"

\* one well-formed line per code of the label table
CanonicalLines ==
  {UrlPrefix \o LABEL_MAPPING[i][1] \o "_leaf.JPG\n" : i \in 1..Len(LABEL_MAPPING)}

\* lines the split-generator runs read: padded, blank, unterminated,
\* slash-free, and two URLs with one basename
ManifestLines ==
  { "http://m/f/0001_leaf.JPG\n",
    "  http://m/f/0099_leaf.JPG \n",
    "http://m/g/0001_leaf.JPG\n",
    "\n",
    "http://m/f/0012_x.JPG",
    "0003_leaf.JPG\n" }

\* lines whose basenames miss the file-name pattern, or nearly do
OddLines ==
  {UrlPrefix \o n \o "\n" :
     n \in { "0001_leaf.jpg", "0001leaf.JPG", "0001_.JPG", "0001_leaf.JPG.bak",
             "x0001_leaf.JPG", "001_leaf.JPG", "0001-leaf.JPG", "0001_leafJPG",
             "0001_a.JPG.JPG", "00a1_leaf.JPG", "0012_.JPG", "00001_leaf.JPG" }}

URLLines == CanonicalLines \cup ManifestLines \cup OddLines

\* every key a name_to_url_map can have
FileNames == {Basename(Strip(l)) : l \in URLLines}

\* directories the download manager may resolve the files into
DownloadDirs == {"/dl/a/", "/dl/b/"}

\* dl_manager.download(m) when it succeeds: the same keys, resolved paths
DownloadResults(m) == {[n \in DOMAIN m |-> d \o n] : d \in DownloadDirs}

EmptyDict == <<>>

SeqsUpTo(S, n) == UNION {[1..k -> S] : k \in 0..n}

\* the subsets of S with at most k elements
RECURSIVE SubsetsUpTo(_, _)
SubsetsUpTo(S, k) ==
  IF k = 0 THEN {{}}
  ELSE LET P == SubsetsUpTo(S, k - 1)
       IN P \cup {T \cup {x} : T \in P, x \in S}

Bump(c) == IF c < MaxCalls THEN c + 1 ELSE c

(***************************************************************************)
(* _split_generators                                                       *)
(***************************************************************************)
\* the statement "++retry_count": the expression +(+retry_count) is
\* evaluated and its value dropped; no assignment takes place
PreIncrementStmt(rc) == rc

ShouldRaiseInverted(rc) == rc # MAX_DOWNLOAD_RETRY

\* if retry_count == _MAX_DOWNLOAD_RETRY: raise
ShouldRaise(rc) == rc = MAX_DOWNLOAD_RETRY

KeepOldOnSuccess(old, res) == old

\* image_files = dl_manager.download(name_to_url_map)
AssignDownload(old, res) == res

\* [SplitGenerator(name=TRAIN, num_shards=1, gen_kwargs={"image_files": ...})]
SplitGenerators(files) ==
  << [name |-> "train", num_shards |-> 1,
      gen_kwargs |-> [image_files |-> files]] >>

None == "None"

GenIdle ==
  /\ gpc = "idle"
  /\ gen_files = EmptyDict
  /\ gen_files0 = EmptyDict
  /\ visits = 0
  /\ todo = {}
  /\ emitted = <<>>

InitSplit ==
  /\ pc = "open"
  /\ url_lines \in SeqsUpTo(ManifestLines, MaxLines)
  /\ name_to_url_map = EmptyDict
  /\ retry_count = 0
  /\ image_files = EmptyDict
  /\ result = None
  /\ calls = 0
  /\ fails = 0
  /\ downloaded = <<>>
  /\ GenIdle

\* lines 103-108: read the manifest, build the map, initialise the locals
ReadManifest ==
  /\ pc = "open"
  /\ name_to_url_map' = NameToUrlMap(url_lines)
  /\ retry_count' = 0
  /\ image_files' = EmptyDict
  /\ pc' = "try"
  /\ UNCHANGED <<url_lines, result, calls, fails, downloaded>>
  /\ UNCHANGED genVars

\* lines 113-114: the download returns; assign and break
DownloadOk ==
  /\ pc = "try"
  /\ \E res \in DownloadResults(name_to_url_map) :
       /\ image_files' = AssignDownload(image_files, res)
       /\ downloaded' = Append(downloaded, res)
  /\ calls' = Bump(calls)
  /\ pc' = "return"
  /\ UNCHANGED <<url_lines, name_to_url_map, retry_count, result, fails>>
  /\ UNCHANGED genVars

\* line 113: the download raises; control enters the except clause
DownloadFail ==
  /\ pc = "try"
  /\ calls' = Bump(calls)
  /\ fails' = Bump(fails)
  /\ pc' = "except"
  /\ UNCHANGED <<url_lines, name_to_url_map, retry_count, image_files, result,
                 downloaded>>
  /\ UNCHANGED genVars

\* lines 115-118: the except clause; re-raise or loop
Except ==
  /\ pc = "except"
  /\ retry_count' = PreIncrementStmt(retry_count)
  /\ pc' = IF ShouldRaise(retry_count') THEN "raised" ELSE "try"
  /\ UNCHANGED <<url_lines, name_to_url_map, image_files, result, calls, fails,
                 downloaded>>
  /\ UNCHANGED genVars

\* lines 119-124
Return ==
  /\ pc = "return"
  /\ result' = SplitGenerators(image_files)
  /\ pc' = "returned"
  /\ UNCHANGED <<url_lines, name_to_url_map, retry_count, image_files, calls,
                 fails, downloaded>>
  /\ UNCHANGED genVars

NextSplit == ReadManifest \/ DownloadOk \/ DownloadFail \/ Except \/ Return

SpecSplit == InitSplit /\ [][NextSplit]_vars

\* the interpreter keeps running the call while it has a next step
FairSpecSplit == SpecSplit /\ WF_vars(NextSplit)

SplitDone == pc \in {"returned", "raised"}

(***************************************************************************)
(* _generate_examples                                                      *)
(***************************************************************************)
Digits == {"0", "1", "2", "3", "4", "5", "6", "7", "8", "9"}

\* {pattern: label for pattern, label in _LABEL_MAPPING}: the last pair
\* with a given pattern wins
LabelMap ==
  LET n == Len(LABEL_MAPPING)
      codes == {LABEL_MAPPING[i][1] : i \in 1..n}
      lastOf(c) == CHOOSE i \in 1..n :
                     /\ LABEL_MAPPING[i][1] = c
                     /\ \A j \in 1..n : LABEL_MAPPING[j][1] = c => j <= i
  IN [c \in codes |-> LABEL_MAPPING[lastOf(c)][2]]

RegexpMatchAnySuffix(s) ==
  /\ Len(s) >= 5
  /\ \A i \in 1..4 : Char(s, i) \in Digits
  /\ Char(s, 5) = "_"

\* re.compile("^(\d\d\d\d)_.*\.JPG$").match(s) is not None.  "." matches any
\* character but a newline; "$" matches at the end of s and also just before
\* a newline that ends s.
RegexpMatch(s) ==
  LET t == IF Len(s) > 0 /\ Char(s, Len(s)) = "\n"
             THEN SubSeq(s, 1, Len(s) - 1)
             ELSE s
  IN /\ Len(t) >= 9
     /\ \A i \in 1..4 : Char(t, i) \in Digits
     /\ Char(t, 5) = "_"
     /\ \A i \in 6..(Len(t) - 4) : Char(t, i) # "\n"
     /\ SubSeq(t, Len(t) - 3, Len(t)) = ".JPG"

\* match.group(1)
Group1(s) == SubSeq(s, 1, 4)

FormatKeyLabelOnly(label, fname) == label

\* "{}/{}".format(label, original_fname)
FormatKey(label, fname) == label \o "/" \o fname

RecordSwapped(fpath, fname, label) ==
  ("image" :> fname) @@ ("image/filename" :> fpath) @@ ("label" :> label)

\* the record dict of lines 135-139
Record(fpath, fname, label) ==
  ("image" :> fpath) @@ ("image/filename" :> fname) @@ ("label" :> label)

InfoCodes == [i \in 1..Len(LABEL_MAPPING) |-> LABEL_MAPPING[i][1]]

\* labels = list(zip(*_LABEL_MAPPING))[1], the names of the ClassLabel feature
InfoLabels == [i \in 1..Len(LABEL_MAPPING) |-> LABEL_MAPPING[i][2]]

FilesAfterPop(files, fname) == [k \in DOMAIN files \ {fname} |-> files[k]]

\* iterating image_files.items() reads the dict and leaves it as it is
FilesAfterVisit(files, fname) == files

\* lines 132-140 for one item: what the iteration yields for it
Yielded(fname, fpath) ==
  IF RegexpMatch(fname) /\ Group1(fname) \in DOMAIN LabelMap
    THEN LET label == LabelMap[Group1(fname)]
         IN << <<FormatKey(label, fname), Record(fpath, fname, label)>> >>
    ELSE << >>

SplitIdle ==
  /\ pc = "idle"
  /\ url_lines = <<>>
  /\ name_to_url_map = EmptyDict
  /\ retry_count = 0
  /\ image_files = EmptyDict
  /\ result = None
  /\ calls = 0
  /\ fails = 0
  /\ downloaded = <<>>

\* the mappings a download can hand to the TRAIN split: at most MaxFiles
\* manifest basenames, resolved into one download directory
InputFiles ==
  UNION {{[n \in S |-> d \o n] : d \in DownloadDirs} :
           S \in SubsetsUpTo(FileNames, MaxFiles)}

InitGen ==
  /\ SplitIdle
  /\ gpc = "start"
  /\ gen_files \in InputFiles
  /\ gen_files0 = gen_files
  /\ visits = 0
  /\ todo = {}
  /\ emitted = <<>>

\* lines 128-131: build label_map and regexp, start iterating the items
GenBegin ==
  /\ gpc = "start"
  /\ todo' = DOMAIN gen_files
  /\ gpc' = "loop"
  /\ UNCHANGED <<gen_files, gen_files0, visits, emitted>>
  /\ UNCHANGED splitVars

\* lines 131-140: one iteration of the loop, in whatever order the dict
\* hands out its items
GenStep ==
  /\ gpc = "loop"
  /\ \E fname \in todo :
       /\ emitted' = emitted \o Yielded(fname, gen_files[fname])
       /\ gen_files' = FilesAfterVisit(gen_files, fname)
       /\ todo' = todo \ {fname}
  /\ visits' = visits + 1
  /\ UNCHANGED <<gpc, gen_files0>>
  /\ UNCHANGED splitVars

\* the items are exhausted: the generator ends
GenEnd ==
  /\ gpc = "loop"
  /\ todo = {}
  /\ gpc' = "done"
  /\ UNCHANGED <<gen_files, gen_files0, visits, todo, emitted>>
  /\ UNCHANGED splitVars

NextGen == GenBegin \/ GenStep \/ GenEnd

SpecGen == InitGen /\ [][NextGen]_vars

(***************************************************************************)
(* Vocabulary of the properties.                                           *)
(***************************************************************************)
\* the file-name pattern as the specification words it: four digits, an
\* underscore, any characters, the suffix ".JPG"
NamedLikeALeaf(s) ==
  /\ Len(s) >= 9
  /\ \A i \in 1..4 : Char(s, i) \in Digits
  /\ Char(s, 5) = "_"
  /\ SubSeq(s, Len(s) - 3, Len(s)) = ".JPG"

TableCodes == {LABEL_MAPPING[i][1] : i \in 1..Len(LABEL_MAPPING)}

\* the file name carries a code of the label table
Labelled(s) == NamedLikeALeaf(s) /\ SubSeq(s, 1, 4) \in TableCodes

\* the label the table pairs with the code of s
TableLabel(s) ==
  LABEL_MAPPING[CHOOSE i \in 1..Len(LABEL_MAPPING) :
                  LABEL_MAPPING[i][1] = SubSeq(s, 1, 4)][2]

\* the entries the loop has been through
Visited == IF gpc = "start" THEN {} ELSE DOMAIN gen_files0 \ todo

\* positions of emitted whose record names the file s
RecordsOf(s) == {j \in 1..Len(emitted) : emitted[j][2]["image/filename"] = s}

Succeeded == Len(downloaded) >= 1

(***************************************************************************)
(* Properties of _split_generators                                         *)
(***************************************************************************)
\* C1: when the download fails on 10 consecutive attempts the failure
\* reaches the caller, nothing is returned, and download is never invoked
\* an 11th time: the number of download calls never exceeds 10.
C1_RaisesAfterTenFailures ==
  /\ calls <= MAX_DOWNLOAD_RETRY
  /\ (fails >= MAX_DOWNLOAD_RETRY /\ pc # "except") =>
       (pc = "raised" /\ result = None)

\* C2: when the download fails on its first k attempts, 0 <= k <= 9, and
\* succeeds on attempt k+1, _split_generators returns normally with the
\* successful result and no failure reaches the caller.
C2_SuccessWithinRetriesReturns ==
  /\ pc = "raised" => fails >= MAX_DOWNLOAD_RETRY
  /\ (Succeeded /\ fails < MAX_DOWNLOAD_RETRY) => pc \in {"return", "returned"}
  /\ (pc = "returned" /\ fails < MAX_DOWNLOAD_RETRY) =>
       result = SplitGenerators(downloaded[Len(downloaded)])

C2_Witness ==
  /\ pc = "returned"
  /\ fails = MAX_DOWNLOAD_RETRY - 1
  /\ calls = MAX_DOWNLOAD_RETRY
  /\ result = SplitGenerators(downloaded[1])
  /\ downloaded[1] # EmptyDict

\* C3: every run of _split_generators terminates: it eventually returns the
\* split generators or raises the download error.
C3_Terminates == <>SplitDone

\* C8: the retry counter starts at zero and advances by one on each failed
\* attempt: after k failed attempts retry_count equals k.
C8_CounterCountsFailures ==
  (pc \in {"try", "raised", "return", "returned"} /\ fails < MaxCalls) =>
    retry_count = fails

\* C9: once a download call succeeds no further download call is made, and
\* the image_files handed to the TRAIN split generator is exactly the
\* mapping that call returned.
C9_SuccessStopsAndIsHandedOn ==
  [][/\ Succeeded => (calls' = calls /\ downloaded' = downloaded)
     /\ pc' = "returned" =>
          /\ Len(downloaded') = 1
          /\ Len(result') = 1
          /\ result'[1].name = "train"
          /\ result'[1].gen_kwargs.image_files = downloaded'[1]]_vars

C9_Witness ==
  /\ pc = "returned"
  /\ fails >= 1
  /\ downloaded[1] # EmptyDict
  /\ result[1].gen_kwargs.image_files = downloaded[1]

(***************************************************************************)
(* Properties of _generate_examples                                        *)
(***************************************************************************)
\* C4: for every entry whose file name is four digits, an underscore, any
\* characters and ".JPG", with the digits a code of the label table, exactly
\* one record is emitted: its label is the one mapped to the code, its
\* image/filename the file name, its image the path, its key label/filename.
C4_LabelledEntryYieldsItsRecord ==
  \A n \in Visited :
    Labelled(n) =>
      /\ Cardinality(RecordsOf(n)) = 1
      /\ \A j \in RecordsOf(n) :
           /\ emitted[j][2]["label"] = TableLabel(n)
           /\ emitted[j][2]["image/filename"] = n
           /\ emitted[j][2]["image"] = gen_files0[n]
           /\ DOMAIN emitted[j][2] = {"image", "image/filename", "label"}
           /\ emitted[j][1] = TableLabel(n) \o "/" \o n

C4_Witness ==
  /\ gpc = "done"
  /\ Len(emitted) = 1
  /\ \E n \in Visited :
       /\ Labelled(n)
       /\ SubSeq(n, 1, 4) = "0022"
       /\ emitted[1][2]["label"] = "Chinar (P11) diseased"
       /\ emitted[1][2]["image"] = gen_files0[n]
       /\ emitted[1][2]["image"] # n

\* C5: an entry whose file name misses the pattern, or whose code is not in
\* the label table, yields no record, and the other entries are still
\* processed: {0001_leaf.JPG, 0099_leaf.JPG} yields exactly the record keyed
\* "Mango (P0) healthy/0001_leaf.JPG".
C5_UnlabelledEntryIsDropped ==
  /\ \A n \in Visited : ~Labelled(n) => RecordsOf(n) = {}
  /\ gpc = "done" => todo = {}
  /\ (gpc = "done" /\ DOMAIN gen_files0 = {"0001_leaf.JPG", "0099_leaf.JPG"}) =>
       /\ Len(emitted) = 1
       /\ emitted[1][1] = "Mango (P0) healthy/0001_leaf.JPG"

C5_Witness ==
  /\ gpc = "done"
  /\ DOMAIN gen_files0 = {"0001_leaf.JPG", "0099_leaf.JPG"}
  /\ Len(emitted) = 1
  /\ emitted[1][1] = "Mango (P0) healthy/0001_leaf.JPG"

\* C6: for N distinct file names that each match the pattern with a code of
\* the label table, exactly N records are emitted and their N keys
\* label/filename are pairwise distinct.
C6_KeysAreDistinct ==
  (gpc = "done" /\ \A n \in DOMAIN gen_files0 : Labelled(n)) =>
    /\ Len(emitted) = Cardinality(DOMAIN gen_files0)
    /\ \A i, j \in 1..Len(emitted) : i # j => emitted[i][1] # emitted[j][1]
    /\ \A i \in 1..Len(emitted) :
         \E n \in DOMAIN gen_files0 : emitted[i][1] = TableLabel(n) \o "/" \o n

C6_Witness ==
  /\ gpc = "done"
  /\ Cardinality(DOMAIN gen_files0) = MaxFiles
  /\ \A n \in DOMAIN gen_files0 : Labelled(n) /\ SubSeq(n, 1, 4) = "0001"
  /\ Len(emitted) = MaxFiles

\* C7: the label table has exactly 22 entries with pairwise distinct
\* four-digit codes and pairwise distinct labels, and every emitted label
\* is one of the names _info declares for the label feature.
C7_LabelsAreDeclared ==
  /\ Len(LABEL_MAPPING) = 22
  /\ \A i \in 1..Len(LABEL_MAPPING) :
       /\ Len(LABEL_MAPPING[i][1]) = 4
       /\ \A k \in 1..4 : Char(LABEL_MAPPING[i][1], k) \in Digits
  /\ \A i, j \in 1..Len(LABEL_MAPPING) :
       i # j => /\ LABEL_MAPPING[i][1] # LABEL_MAPPING[j][1]
                /\ LABEL_MAPPING[i][2] # LABEL_MAPPING[j][2]
  /\ Len(InfoLabels) = 22
  /\ \A j \in 1..Len(emitted) :
       \E i \in 1..Len(InfoLabels) : emitted[j][2]["label"] = InfoLabels[i]

C7_Witness ==
  /\ gpc = "done"
  /\ Len(emitted) = MaxFiles
  /\ emitted[1][2]["label"] # emitted[2][2]["label"]

\* C10: _generate_examples visits each entry once, emits at most one record
\* per entry, so never more records than entries, and then ends; it leaves
\* image_files as it was.
C10_BoundedByInput ==
  /\ gen_files = gen_files0
  /\ todo \subseteq DOMAIN gen_files0
  /\ gpc # "start" => visits + Cardinality(todo) = Cardinality(DOMAIN gen_files0)
  /\ Len(emitted) <= visits
  /\ Len(emitted) <= Cardinality(DOMAIN gen_files0)
  /\ \A n \in DOMAIN gen_files0 : Cardinality(RecordsOf(n)) <= 1
  /\ gpc = "done" => todo = {}
  /\ gpc # "done" => ENABLED NextGen

C10_Witness ==
  /\ gpc = "done"
  /\ visits = MaxFiles
  /\ Len(emitted) = 1
  /\ gen_files = gen_files0

====
